---- MODULE Spec2Model ----
(***************************************************************************)
(* reddit_scraper: the resumable ingestion pipeline.                       *)
(*                                                                         *)
(*   cli.py       main / build_paths: one checkpoint DB and one NDJSON     *)
(*                file per scrape tag                                      *)
(*   scraper.py   Scraper.run: discovery -> is_done -> fetch -> append ->  *)
(*                mark_done, one candidate at a time                       *)
(*   reddit.py    RedditClient: the two discovery generators and the       *)
(*                retrying fetch                                           *)
(*                                                                         *)
(* Python values: Optional[T] is <<>> (None) or <<v>>; a str is the        *)
(* sequence of its characters; the exception classes are their names.      *)
(***************************************************************************)
EXTENDS Integers, Sequences, FiniteSets, TLC

VARIABLES
    progress_db,   \* checkpoint files on disk: path -> set of done ids
    outputs,       \* NDJSON files on disk: path -> sequence of record ids
    pc,            \* where the process is in main / Scraper.run
    job,           \* the Scraper's constructor arguments (self.*)
    feed,          \* what the upstream listing / search serves this process
    genPos,        \* records of the feed the discovery generator has read
    genDone,       \* the discovery generator has finished
    item,          \* the record the generator is suspended on (the loop's item)
    attempts,      \* failed attempts of the fetch in flight
    error,         \* the exception run() ended with
    closed,        \* self.progress.close() was called
    saved,         \* bar.n
    result,        \* the value run() returned
    runs,          \* processes launched so far
    yielded,       \* history: the records the generator yielded to this run
    fetched,       \* history: ids this run called fetch_submission_tree for
    reported,      \* history: ids is_done answered True for in this run
    doneAtStart,   \* history: the checkpoint set when this run started
    sinkAtStart,   \* history: the length of the output file when this run started
    earlier,       \* history: the job keys of the processes before this one
    exit_code,     \* the status sys.exit() was called with
    cuts           \* history: the candidates a signal or a store failure cut short

diskVars == <<progress_db, outputs>>
genVars  == <<feed, genPos, genDone, item, yielded>>
runVars  == <<pc, job, attempts, error, closed, saved, result, runs>>
histVars == <<fetched, reported, doneAtStart, sinkAtStart, earlier>>
sigVars  == <<exit_code, cuts>>
vars     == <<diskVars, genVars, runVars, histVars, sigVars>>

-----------------------------------------------------------------------------
(* Bounds of the model *)

MaxFeed == 3       \* longest upstream feed of a run
MaxRuns == 2       \* processes launched one after the other
MaxRetries == 2    \* caught failures of one fetch before it has to succeed

-----------------------------------------------------------------------------
(* Python values *)

NoneV == <<>>
Some(x) == <<x>>
IsNone(o) == o = <<>>
Val(o) == o[1]

\* bool(x) of an Optional[int]: None and 0 are falsy
TruthyInt(o) == ~IsNone(o) /\ Val(o) # 0
\* bool(x) of an Optional[List]: None and [] are falsy
TruthyList(o) == ~IsNone(o) /\ Len(Val(o)) > 0

Range(s) == {s[i] : i \in 1..Len(s)}

Uppers == <<"A","B","C","D","E","F","G","H","I","J","K","L","M",
            "N","O","P","Q","R","S","T","U","V","W","X","Y","Z">>
Lowers == <<"a","b","c","d","e","f","g","h","i","j","k","l","m",
            "n","o","p","q","r","s","t","u","v","w","x","y","z">>

\* str.lower(), character by character
LowerChar(c) ==
    IF \E i \in 1..Len(Uppers) : Uppers[i] = c
    THEN Lowers[CHOOSE i \in 1..Len(Uppers) : Uppers[i] = c]
    ELSE c
Lower(s) == [i \in 1..Len(s) |-> LowerChar(s[i])]

\* str.replace(old, new) for single characters
Replace(s, old, new) == [i \in 1..Len(s) |-> IF s[i] = old THEN new ELSE s[i]]

-----------------------------------------------------------------------------
(* reddit.py: RedditClient *)

SecondsPerDay == 86400
EndOfDay == 86399

\* An ISO date string with what datetime.fromisoformat reads from it: the
\* calendar day (days since the epoch), the time of day in seconds, and the
\* UTC offset in seconds when the string carries one.
IsoDate(text, days, secs, tz) == [text |-> text, days |-> days, secs |-> secs, tz |-> tz]

\* _to_ts: a naive datetime is taken as UTC; int(dt.timestamp())
_to_ts(iso) ==
    LET utcoffset == IF IsNone(iso.tz) THEN 0 ELSE Val(iso.tz)
    IN  iso.days * SecondsPerDay + iso.secs - utcoffset

\* Mutant of FlairSet: the allowed values are not lowered.
FlairSetNoLower(flairs) ==
    IF TruthyList(flairs) THEN Some(Range(Val(flairs))) ELSE NoneV

\* flair_set = {f.lower() for f in flairs} if flairs else None
FlairSet(flairs) ==
    IF TruthyList(flairs) THEN Some({Lower(f) : f \in Range(Val(flairs))}) ELSE NoneV

\* (sub.link_flair_text or "").lower()
FlairKey(sub) ==
    Lower(IF IsNone(sub.link_flair_text) THEN <<>> ELSE Val(sub.link_flair_text))

\* if min_score and sub.score < min_score: continue
ScoreDrop(min_score, sub) == TruthyInt(min_score) /\ sub.score < Val(min_score)

\* if flair_set and (sub.link_flair_text or "").lower() not in flair_set: continue
FlairDrop(flair_set, sub) ==
    /\ ~IsNone(flair_set)
    /\ Val(flair_set) # {}
    /\ FlairKey(sub) \notin Val(flair_set)

\* sub.created_utc is a float: the feeds carry it in milliseconds.
Millis == 1000

\* int(sub.created_utc): truncation toward zero
IntTs(created_utc) ==
    IF created_utc >= 0 THEN created_utc \div Millis ELSE -((-created_utc) \div Millis)

\* Mutant of ListOutcome: a record older than the start is skipped, the scan
\* goes on.
ListOutcomeNoBreak(sub, after, before, min_score, flair_set) ==
    LET ts == IntTs(sub.created_utc) IN
    IF ts < after THEN "continue"
    ELSE IF ts > before THEN "continue"
    ELSE IF ScoreDrop(min_score, sub) THEN "continue"
    ELSE IF FlairDrop(flair_set, sub) THEN "continue"
    ELSE "yield"

\* Mutant of ListOutcome: a record newer than the end ends the scan.
ListOutcomeEndBreak(sub, after, before, min_score, flair_set) ==
    LET ts == IntTs(sub.created_utc) IN
    IF ts < after THEN "break"
    ELSE IF ts > before THEN "break"
    ELSE IF ScoreDrop(min_score, sub) THEN "continue"
    ELSE IF FlairDrop(flair_set, sub) THEN "continue"
    ELSE "yield"

\* One pass of the loop of list_submission_ids over the record sub.
ListOutcome(sub, after, before, min_score, flair_set) ==
    LET ts == IntTs(sub.created_utc) IN
    IF ts < after THEN "break"
    ELSE IF ts > before THEN "continue"
    ELSE IF ScoreDrop(min_score, sub) THEN "continue"
    ELSE IF FlairDrop(flair_set, sub) THEN "continue"
    ELSE "yield"

\* Mutant of SearchOutcome: the search results go through the date tests of
\* the listing.
SearchOutcomeDated(sub, min_score, flair_set) ==
    LET ts == IntTs(sub.created_utc) IN
    IF ts < _to_ts(job.start_date) THEN "break"
    ELSE IF ts > _to_ts(job.end_date) + EndOfDay THEN "continue"
    ELSE IF ScoreDrop(min_score, sub) THEN "continue"
    ELSE IF FlairDrop(flair_set, sub) THEN "continue"
    ELSE "yield"

\* One pass of the loop of search_submissions over the record sub.
SearchOutcome(sub, min_score, flair_set) ==
    IF ScoreDrop(min_score, sub) THEN "continue"
    ELSE IF FlairDrop(flair_set, sub) THEN "continue"
    ELSE "yield"

\* The dict both generators yield.
Yield(sub) ==
    [id |-> sub.id, created_utc |-> IntTs(sub.created_utc),
     score |-> sub.score, link_flair_text |-> sub.link_flair_text]

\* praw.exceptions and prawcore.exceptions: each class and its base class.
ExcBase ==
    [c \in {"PRAWException", "APIException", "RedditAPIException", "ClientException",
            "PrawcoreException", "RequestException", "ResponseException",
            "OAuthException", "ServerError", "TooManyRequests", "NotFound",
            "Forbidden", "BadRequest"} |->
        CASE c = "PRAWException"      -> "Exception"
          [] c = "APIException"       -> "PRAWException"
          [] c = "RedditAPIException" -> "APIException"
          [] c = "ClientException"    -> "PRAWException"
          [] c = "PrawcoreException"  -> "Exception"
          [] c = "RequestException"   -> "PrawcoreException"
          [] c = "ResponseException"  -> "PrawcoreException"
          [] c = "OAuthException"     -> "PrawcoreException"
          [] OTHER                    -> "ResponseException"]

RECURSIVE IsInstance(_, _)
IsInstance(e, c) ==
    \/ e = c
    \/ e \in DOMAIN ExcBase /\ IsInstance(ExcBase[e], c)

\* Mutant of CatchTuple: transport errors are not caught.
CatchTupleNoRequest ==
    {"APIException", "RedditAPIException", "ResponseException", "ServerError"}

\* except (APIException, RedditAPIException, RequestException,
\*         ResponseException, ServerError)
CatchTuple ==
    {"APIException", "RedditAPIException", "RequestException",
     "ResponseException", "ServerError"}

Caught(e) == \E c \in CatchTuple : IsInstance(e, c)

\* What reddit.submission(id) / replace_more can raise.
FetchErrors ==
    {"RedditAPIException", "RequestException", "ServerError", "TooManyRequests",
     "NotFound", "Forbidden", "BadRequest", "OAuthException", "ClientException"}

-----------------------------------------------------------------------------
(* Collaborators of the Coordinator whose code is not part of the sources:   *)
(* services/progress.py (ProgressTracker) and core/models.py (export_ndjson) *)

\* ProgressTracker(path): opens the checkpoint DB, creating it when absent
ProgressTracker(db, path) == IF path \in DOMAIN db THEN db ELSE (path :> {}) @@ db

is_done(db, path, sid) == sid \in db[path]

\* idempotent: marking a done id again changes nothing
mark_done(db, path, sid) == [db EXCEPT ![path] = @ \cup {sid}]

\* export_ndjson(submissions, path, append): one record per submission
export_ndjson(files, submissions, path, append) ==
    IF append /\ path \in DOMAIN files
    THEN [files EXCEPT ![path] = @ \o submissions]
    ELSE (path :> submissions) @@ files

FileOf(files, path) == IF path \in DOMAIN files THEN files[path] ELSE <<>>

-----------------------------------------------------------------------------
(* cli.py *)

\* _slug: date.replace("-", "_")
_slug(date) == Replace(date, "-", "_")

\* build_paths: tag = f"{sub}_{_slug(start)}__{_slug(end)}" and the two files
\* of the scrape, OUT_BASE / "data" / f"output_{tag}.ndjson" and
\* OUT_BASE / "progress" / f"progress_{tag}.sqlite". A path is the tuple of its
\* directory, the fixed head of its file name, the tag and the fixed extension.
build_paths(sub, start, end) ==
    LET tag == sub \o <<"_">> \o _slug(start) \o <<"_", "_">> \o _slug(end)
    IN  [tag      |-> tag,
         ndjson   |-> <<"outputs/data", "output_", tag, ".ndjson">>,
         progress |-> <<"outputs/progress", "progress_", tag, ".sqlite">>]

\* What identifies a scrape job: subreddit, date range, keyword query.
JobKey(a) == <<a.subreddit, a.start_date.text, a.end_date.text, a.keywords>>

\* Scraper(subreddit=..., output=paths["ndjson"], progress_db=paths["progress"])
Scraper(args, paths) ==
    [subreddit   |-> args.subreddit,
     start_date  |-> args.start_date,
     end_date    |-> args.end_date,
     min_score   |-> args.min_score,
     flairs      |-> args.flairs,
     keywords    |-> args.keywords,
     output      |-> paths["ndjson"],
     progress_db |-> paths["progress"]]

\* main(): build_paths, Scraper(...), run() up to the loop. args are the
\* parsed command-line arguments and f what the upstream will serve.
Main(args, f) ==
    LET paths == build_paths(args.subreddit, args.start_date.text, args.end_date.text)
        db    == ProgressTracker(progress_db, paths["progress"])
    IN  /\ pc = "idle"
        /\ runs < MaxRuns
        /\ job' = Scraper(args, paths)
        /\ progress_db' = db
        /\ feed' = f
        /\ genPos' = 0
        /\ genDone' = FALSE
        /\ item' = NoneV
        /\ yielded' = <<>>
        /\ attempts' = 0
        /\ error' = NoneV
        /\ closed' = FALSE
        /\ saved' = 0
        /\ result' = NoneV
        /\ runs' = runs + 1
        /\ pc' = "discovering"
        /\ fetched' = {}
        /\ reported' = {}
        /\ doneAtStart' = db[paths["progress"]]
        /\ sinkAtStart' = Len(FileOf(outputs, paths["ndjson"]))
        /\ exit_code' = NoneV
        /\ UNCHANGED <<outputs, earlier, cuts>>

\* main() returns after run() returned, or the exception run() raised or
\* SystemExit ends the process: the process is gone, the files stay.
Exit ==
    /\ pc \in {"done", "failed", "aborted"}
    /\ pc' = "idle"
    /\ earlier' = earlier \cup {JobKey(job)}
    /\ job' = NoneV
    /\ feed' = <<>>
    /\ genPos' = 0
    /\ genDone' = FALSE
    /\ item' = NoneV
    /\ yielded' = <<>>
    /\ attempts' = 0
    /\ error' = NoneV
    /\ closed' = FALSE
    /\ saved' = 0
    /\ result' = NoneV
    /\ fetched' = {}
    /\ reported' = {}
    /\ doneAtStart' = {}
    /\ sinkAtStart' = 0
    /\ exit_code' = NoneV
    /\ UNCHANGED <<diskVars, runs, cuts>>

-----------------------------------------------------------------------------
(* scraper.py: Scraper.run, with the generator it iterates *)

Store == progress_db[job.progress_db]
Sink == FileOf(outputs, job.output)
KeywordMode == TruthyList(job.keywords)

\* The generator resumes (the for loop asks for its next item) and runs one
\* pass of its own loop: at the end of the feed or at a break it finishes, at a
\* continue it stays in its loop, at a yield it hands the record to run().
GenStep(outcome) ==
    IF genPos = Len(feed)
    THEN /\ genDone' = TRUE
         /\ UNCHANGED <<feed, genPos, item, yielded, pc>>
    ELSE LET sub == feed[genPos + 1] IN
         /\ genPos' = genPos + 1
         /\ genDone' = (outcome = "break")
         /\ IF outcome = "yield"
            THEN /\ item' = Some(Yield(sub))
                 /\ yielded' = Append(yielded, Yield(sub))
                 /\ pc' = "filtering"
            ELSE UNCHANGED <<item, yielded, pc>>
         /\ UNCHANGED feed

\* for sub in sub_ref.new(limit=None): ...
ListStep ==
    /\ pc = "discovering"
    /\ ~genDone
    /\ ~KeywordMode
    /\ GenStep(IF genPos = Len(feed) THEN "end"
               ELSE ListOutcome(feed[genPos + 1], _to_ts(job.start_date),
                                _to_ts(job.end_date) + EndOfDay,
                                job.min_score, FlairSet(job.flairs)))
    /\ UNCHANGED <<diskVars, job, attempts, error, closed, saved, result, runs, histVars,
                   sigVars>>

\* for sub in sub_ref.search(query, sort="new", time_filter=time_filter): ...
SearchStep ==
    /\ pc = "discovering"
    /\ ~genDone
    /\ KeywordMode
    /\ GenStep(IF genPos = Len(feed) THEN "end"
               ELSE SearchOutcome(feed[genPos + 1], job.min_score, FlairSet(job.flairs)))
    /\ UNCHANGED <<diskVars, job, attempts, error, closed, saved, result, runs, histVars,
                   sigVars>>

\* Mutant of Filter: the is_done check is lost, every candidate is fetched.
FilterNoSkip ==
    /\ pc = "filtering"
    /\ pc' = "fetching"
    /\ attempts' = 0
    /\ fetched' = fetched \cup {Val(item).id}
    /\ UNCHANGED <<diskVars, genVars, job, error, closed, saved, result, runs,
                   reported, doneAtStart, sinkAtStart, earlier,
                   sigVars>>

\* Mutant of Filter: a skipped candidate is counted as saved.
FilterSkipCounts ==
    /\ pc = "filtering"
    /\ LET sid == Val(item).id IN
       IF is_done(progress_db, job.progress_db, sid)
       THEN /\ pc' = "discovering"
            /\ reported' = reported \cup {sid}
            /\ saved' = saved + 1
            /\ UNCHANGED <<attempts, fetched>>
       ELSE /\ pc' = "fetching"
            /\ attempts' = 0
            /\ fetched' = fetched \cup {sid}
            /\ UNCHANGED <<reported, saved>>
    /\ UNCHANGED <<diskVars, genVars, job, error, closed, result, runs,
                   doneAtStart, sinkAtStart, earlier, sigVars>>

\* sid = item["id"]; if self.progress.is_done(sid): continue
\* otherwise fetch_submission_tree(sid) is entered
Filter ==
    /\ pc = "filtering"
    /\ LET sid == Val(item).id IN
       IF is_done(progress_db, job.progress_db, sid)
       THEN /\ pc' = "discovering"
            /\ reported' = reported \cup {sid}
            /\ UNCHANGED <<attempts, fetched>>
       ELSE /\ pc' = "fetching"
            /\ attempts' = 0
            /\ fetched' = fetched \cup {sid}
            /\ UNCHANGED reported
    /\ UNCHANGED <<diskVars, genVars, job, error, closed, saved, result, runs,
                   doneAtStart, sinkAtStart, earlier,
                   sigVars>>

\* fetch_submission_tree returns the tree; Submission.from_pushshift_reddit
FetchReturn ==
    /\ pc = "fetching"
    /\ pc' = "persisting"
    /\ UNCHANGED <<diskVars, genVars, job, attempts, error, closed, saved, result,
                   runs, histVars, sigVars>>

\* Mutant of Raise: the error is caught per item and the loop goes on.
RaiseSkipItem(e) ==
    /\ error' = Some(e)
    /\ pc' = "discovering"
    /\ UNCHANGED <<diskVars, genVars, job, attempts, closed, saved, result, runs,
                   histVars, sigVars>>

\* The exception e leaves run(): finally: bar.close(); self.progress.close()
Raise(e) ==
    /\ error' = Some(e)
    /\ closed' = TRUE
    /\ pc' = "failed"
    /\ UNCHANGED <<diskVars, genVars, job, attempts, saved, result, runs, histVars,
                   sigVars>>

\* time.sleep(self.ratelimit_sleep); continue
Retry ==
    /\ attempts < MaxRetries
    /\ attempts' = attempts + 1
    /\ UNCHANGED <<diskVars, genVars, pc, job, error, closed, saved, result, runs,
                   histVars, sigVars>>

\* An attempt of fetch_submission_tree raises e.
FetchRaise(e) ==
    /\ pc = "fetching"
    /\ IF Caught(e) THEN Retry ELSE Raise(e)

\* Mutant of Persist: the record is not written.
PersistNoWrite ==
    /\ pc = "persisting"
    /\ pc' = "checkpointing"
    /\ UNCHANGED <<diskVars, genVars, job, attempts, error, closed, saved, result,
                   runs, histVars, sigVars>>

\* Mutant of Persist: append=True is lost, the file is rewritten.
PersistOverwrite ==
    /\ pc = "persisting"
    /\ outputs' = export_ndjson(outputs, <<Val(item).id>>, job.output, FALSE)
    /\ pc' = "checkpointing"
    /\ UNCHANGED <<progress_db, genVars, job, attempts, error, closed, saved, result,
                   runs, histVars, sigVars>>

\* export_ndjson([submission], self.output, append=True)
Persist ==
    /\ pc = "persisting"
    /\ outputs' = export_ndjson(outputs, <<Val(item).id>>, job.output, TRUE)
    /\ pc' = "checkpointing"
    /\ UNCHANGED <<progress_db, genVars, job, attempts, error, closed, saved, result,
                   runs, histVars, sigVars>>

\* Mutant of Checkpoint: bar.update() is lost.
CheckpointNoUpdate ==
    /\ pc = "checkpointing"
    /\ progress_db' = mark_done(progress_db, job.progress_db, Val(item).id)
    /\ pc' = "discovering"
    /\ UNCHANGED <<outputs, genVars, job, attempts, error, closed, saved, result, runs,
                   histVars, sigVars>>

\* self.progress.mark_done(sid); bar.update()
Checkpoint ==
    /\ pc = "checkpointing"
    /\ progress_db' = mark_done(progress_db, job.progress_db, Val(item).id)
    /\ saved' = saved + 1
    /\ pc' = "discovering"
    /\ UNCHANGED <<outputs, genVars, job, attempts, error, closed, result, runs,
                   histVars, sigVars>>

\* The iterator is exhausted: return bar.n; finally: self.progress.close()
Finish ==
    /\ pc = "discovering"
    /\ genDone
    /\ result' = Some(saved)
    /\ closed' = TRUE
    /\ pc' = "done"
    /\ UNCHANGED <<diskVars, genVars, job, attempts, error, saved, runs, histVars,
                   sigVars>>

\* The run is cut short for the given cause: the history keeps the candidate
\* that was being fetched, written or marked, with the step and the cause.
Cut(cause) ==
    IF pc \in {"fetching", "sleeping", "persisting", "checkpointing"}
    THEN cuts \cup {[at |-> pc, id |-> Val(item).id, cause |-> cause]}
    ELSE cuts

\* Mutant of Interrupt: the handler closes the store and returns, the process
\* goes on.
InterruptNoExit ==
    /\ pc \in {"discovering", "filtering", "fetching", "persisting", "checkpointing"}
    /\ ~closed
    /\ closed' = TRUE
    /\ cuts' = Cut("signal")
    /\ UNCHANGED <<diskVars, genVars, pc, job, attempts, error, saved, result, runs,
                   histVars, exit_code>>

\* Mutant of Interrupt: the fetch catches what the handler raises (a bare
\* except) and tries again.
InterruptCaughtByFetch ==
    /\ pc \in {"discovering", "filtering", "fetching", "persisting", "checkpointing",
               "done"}
    /\ closed' = TRUE
    /\ cuts' = Cut("signal")
    /\ IF pc = "fetching"
       THEN UNCHANGED <<pc, exit_code>>
       ELSE pc' = "aborted" /\ exit_code' = Some(0)
    /\ UNCHANGED <<diskVars, genVars, job, attempts, error, saved, result, runs,
                   histVars>>

\* SIGINT or SIGTERM is delivered between two steps of the process, in run()
\* or after it returned: _handler closes the store and calls sys.exit(0);
\* SystemExit is no Exception, so no except clause of the fetch catches it; it
\* unwinds run() through its finally (a second close()) and ends the process.
Interrupt ==
    /\ pc \in {"discovering", "filtering", "fetching", "sleeping", "persisting",
               "checkpointing", "done"}
    /\ closed' = TRUE
    /\ exit_code' = Some(0)
    /\ pc' = "aborted"
    /\ cuts' = Cut("signal")
    /\ UNCHANGED <<diskVars, genVars, job, attempts, error, saved, result, runs,
                   histVars>>

\* What a failing call of the checkpoint store raises.
StoreError == "OSError"

\* self.progress.is_done(sid) raises: nothing in run() catches it.
IsDoneRaise ==
    /\ pc = "filtering"
    /\ error' = Some(StoreError)
    /\ closed' = TRUE
    /\ pc' = "failed"
    /\ cuts' = Cut("is_done")
    /\ UNCHANGED <<diskVars, genVars, job, attempts, saved, result, runs, histVars,
                   exit_code>>

\* Mutant of MarkDoneRaise: the failure is swallowed and the loop goes on.
MarkDoneRaiseSwallowed ==
    /\ pc = "checkpointing"
    /\ error' = Some(StoreError)
    /\ saved' = saved + 1
    /\ pc' = "discovering"
    /\ cuts' = Cut("mark_done")
    /\ UNCHANGED <<diskVars, genVars, job, attempts, closed, result, runs, histVars,
                   exit_code>>

\* self.progress.mark_done(sid) raises and the id is not marked: nothing in
\* run() catches it.
MarkDoneRaise ==
    /\ pc = "checkpointing"
    /\ error' = Some(StoreError)
    /\ closed' = TRUE
    /\ pc' = "failed"
    /\ cuts' = Cut("mark_done")
    /\ UNCHANGED <<diskVars, genVars, job, attempts, saved, result, runs, histVars,
                   exit_code>>

-----------------------------------------------------------------------------
(* The runs explored *)

Ids == {"a", "b", "c"}

Day0 == IsoDate(<<"1","9","7","0","-","0","1","-","0","1">>, 0, 0, NoneV)
Day0Min1 ==
    IsoDate(<<"1","9","7","0","-","0","1","-","0","1","T","0","0",":","0","1",":","0","0">>,
            0, 60, NoneV)
Day1 == IsoDate(<<"1","9","7","0","-","0","1","-","0","2">>, 1, 0, NoneV)

Args(sub, start, end, min_score, flairs, keywords) ==
    [subreddit |-> sub, start_date |-> start, end_date |-> end,
     min_score |-> min_score, flairs |-> flairs, keywords |-> keywords]

Submission(id, created_utc, score, flair) ==
    [id |-> id, created_utc |-> created_utc, score |-> score, link_flair_text |-> flair]

FeedsOf(records, n) == UNION {[1..k -> records] : k \in 0..n}

\* One scrape tag, in range mode and in keyword mode; every record passes.
RunArgs ==
    {Args(<<"r">>, Day0, Day0, NoneV, NoneV, kw) : kw \in {NoneV, Some(<<<<"k">>>>)}}
RunRecords == {Submission(id, 100 * Millis, 5, NoneV) : id \in Ids}

Init ==
    /\ progress_db = [p \in {} |-> {}]
    /\ outputs = [p \in {} |-> <<>>]
    /\ pc = "idle"
    /\ job = NoneV
    /\ feed = <<>>
    /\ genPos = 0
    /\ genDone = FALSE
    /\ item = NoneV
    /\ yielded = <<>>
    /\ attempts = 0
    /\ error = NoneV
    /\ closed = FALSE
    /\ saved = 0
    /\ result = NoneV
    /\ runs = 0
    /\ fetched = {}
    /\ reported = {}
    /\ doneAtStart = {}
    /\ sinkAtStart = 0
    /\ earlier = {}
    /\ exit_code = NoneV
    /\ cuts = {}

RunFeeds == FeedsOf(RunRecords, MaxFeed)

Launch == \E args \in RunArgs, f \in RunFeeds : Main(args, f)

RunStep ==
    \/ ListStep
    \/ SearchStep
    \/ Filter
    \/ FetchReturn
    \/ \E e \in FetchErrors : FetchRaise(e)
    \/ Persist
    \/ Checkpoint
    \/ Finish

Next == Launch \/ RunStep \/ Exit

Spec == Init /\ [][Next]_vars

-----------------------------------------------------------------------------
(* Discovery explored: one process that re-runs a scrape whose ids are all   *)
(* checkpointed, so that run() only pulls the generator and skips. The feed  *)
(* and the filters are drawn from three families: one rich in timestamps and *)
(* scores, one rich in flairs, and one of longer feeds that differ in their  *)
(* timestamps only (59.5 s is a creation time between two whole seconds).    *)

MaxScan == 2       \* longest feed of the discovery runs

\* The id of the record at each place of a feed.
ScanIds == <<"a", "b", "c", "d">>

Discussion == <<"D","i","s","c","u","s","s","i","o","n">>
News == <<"N","e","w","s">>
EmptyStr == <<>>

\* start 1970-01-01T00:01:00 (after = 60), end 1970-01-01 (before = 86399)
KeywordChoices == {NoneV, Some(<<<<"k">>>>)}

ScoreArgs ==
    {Args(<<"r">>, Day0Min1, Day0, ms, NoneV, kw) :
        ms \in {NoneV, Some(0), Some(5), Some(-1)}, kw \in KeywordChoices}
ScoreAttrs ==
    {Submission("", ts * Millis, sc, NoneV) : ts \in {50, 60, 100, 90000}, sc \in {-2, 3, 5}}

FlairArgs ==
    {Args(<<"r">>, Day0Min1, Day0, ms, fl, kw) :
        ms \in {NoneV, Some(5)},
        fl \in {NoneV, Some(<<>>), Some(<<News>>), Some(<<Lower(Discussion)>>),
                Some(<<EmptyStr>>)},
        kw \in KeywordChoices}
FlairAttrs ==
    {Submission("", ts * Millis, sc, fl) :
        ts \in {50, 100}, sc \in {3, 5}, fl \in {NoneV, Some(Discussion), Some(News)}}

RangeArgs == {Args(<<"r">>, Day0Min1, Day0, NoneV, NoneV, kw) : kw \in KeywordChoices}
RangeAttrs ==
    {Submission("", ms, 5, NoneV) :
        ms \in {10 * Millis, 50 * Millis, 59 * Millis + 500, 90 * Millis, 100 * Millis}}

\* The feeds of at most n records over the attributes, ids by place.
ScanFeeds(attrs, n) ==
    UNION {{[i \in 1..k |-> [g[i] EXCEPT !.id = ScanIds[i]]] : g \in [1..k -> attrs]} :
              k \in 0..n}

ScanInputs ==
    ({"score"} \X ScoreArgs \X ScanFeeds(ScoreAttrs, MaxScan))
        \cup ({"flair"} \X FlairArgs \X ScanFeeds(FlairAttrs, MaxScan))
        \cup ({"range"} \X RangeArgs \X ScanFeeds(RangeAttrs, MaxFeed))

InitDiscovery ==
    \E inp \in ScanInputs :
        LET args  == inp[2]
            paths == build_paths(args.subreddit, args.start_date.text, args.end_date.text)
            all   == Range(ScanIds)
        IN  /\ progress_db = (paths["progress"] :> all)
            /\ outputs = (paths["ndjson"] :> ScanIds)
            /\ pc = "discovering"
            /\ job = Scraper(args, paths)
            /\ feed = inp[3]
            /\ genPos = 0
            /\ genDone = FALSE
            /\ item = NoneV
            /\ yielded = <<>>
            /\ attempts = 0
            /\ error = NoneV
            /\ closed = FALSE
            /\ saved = 0
            /\ result = NoneV
            /\ runs = 1
            /\ fetched = {}
            /\ reported = {}
            /\ doneAtStart = all
            /\ sinkAtStart = Len(ScanIds)
            /\ earlier = {JobKey(args)}
            /\ exit_code = NoneV
            /\ cuts = {}

NextDiscovery == ListStep \/ SearchStep \/ Filter \/ Finish

SpecDiscovery == InitDiscovery /\ [][NextDiscovery]_vars

-----------------------------------------------------------------------------
(* Date bounds explored: one process on a fresh disk, from 1970-01-01T00:01  *)
(* to the end of 1970-01-01 or of 1970-01-02, with no keywords, an empty     *)
(* keyword list or one keyword, over feeds whose records lie before, on,     *)
(* between and after the two boundaries.                                     *)

BoundArgs ==
    {Args(<<"r">>, Day0Min1, end, ms, NoneV, kw) :
        end \in {Day0, Day1}, ms \in {NoneV, Some(5)},
        kw \in {NoneV, Some(<<>>), Some(<<<<"k">>>>)}}
BoundAttrs ==
    {Submission("", ts * Millis, 5, NoneV) :
        ts \in {50, 60, 100, SecondsPerDay - 1, SecondsPerDay}}
        \cup {Submission("", 100 * Millis, 3, NoneV)}

InitBounds ==
    \E args \in BoundArgs, f \in ScanFeeds(BoundAttrs, MaxFeed) :
        LET paths == build_paths(args.subreddit, args.start_date.text, args.end_date.text)
        IN  /\ progress_db = ProgressTracker([p \in {} |-> {}], paths["progress"])
            /\ outputs = [p \in {} |-> <<>>]
            /\ pc = "discovering"
            /\ job = Scraper(args, paths)
            /\ feed = f
            /\ genPos = 0
            /\ genDone = FALSE
            /\ item = NoneV
            /\ yielded = <<>>
            /\ attempts = 0
            /\ error = NoneV
            /\ closed = FALSE
            /\ saved = 0
            /\ result = NoneV
            /\ runs = 1
            /\ fetched = {}
            /\ reported = {}
            /\ doneAtStart = {}
            /\ sinkAtStart = 0
            /\ earlier = {}
            /\ exit_code = NoneV
            /\ cuts = {}

NextBounds ==
    \/ ListStep
    \/ SearchStep
    \/ Filter
    \/ FetchReturn
    \/ Persist
    \/ Checkpoint
    \/ Finish

SpecBounds == InitBounds /\ [][NextBounds]_vars

-----------------------------------------------------------------------------
(* Scrape jobs explored: processes    over two subreddits, two date ranges   *)
(* and three keyword choices, one after the other on the same disk.          *)

Cat == <<"c","a","t">>
Dog == <<"d","o","g">>

JobArgs ==
    {Args(sub, Day0, end, NoneV, NoneV, kw) :
        sub \in {<<"r">>, <<"s">>}, end \in {Day0, Day1},
        kw \in {NoneV, Some(<<Cat>>), Some(<<Dog>>)}}
JobRecords == {Submission(id, 100 * Millis, 5, NoneV) : id \in {"a", "b"}}
JobFeeds == FeedsOf(JobRecords, MaxFeed)

LaunchJob == \E args \in JobArgs, f \in JobFeeds : Main(args, f)

NextJobs == LaunchJob \/ RunStep \/ Exit

SpecJobs == Init /\ [][NextJobs]_vars

-----------------------------------------------------------------------------
(* Cut runs explored: processes of one scrape tag, one after the other on    *)
(* the same disk, that a signal or a failure of the checkpoint store may cut *)
(* short at any step.                                                        *)

SigArgs == {Args(<<"r">>, Day0, Day0, NoneV, NoneV, NoneV)}
SigRecords == {Submission(id, 100 * Millis, 5, NoneV) : id \in {"a", "b"}}
SigFeeds == FeedsOf(SigRecords, MaxFeed)

LaunchSig == \E args \in SigArgs, f \in SigFeeds : Main(args, f)

NextSignals ==
    \/ LaunchSig
    \/ ListStep
    \/ Filter
    \/ FetchReturn
    \/ \E e \in FetchErrors : FetchRaise(e)
    \/ Persist
    \/ Checkpoint
    \/ Finish
    \/ Interrupt
    \/ IsDoneRaise
    \/ MarkDoneRaise
    \/ Exit

SpecSignals == Init /\ [][NextSignals]_vars

-----------------------------------------------------------------------------
(* Runs to their end: processes of one scrape tag whose steps are taken as   *)
(* long as they can be (the process is sequential and keeps running), with   *)
(* an upstream that answers each id in its own way: it serves "a" after at   *)
(* most MaxRetries failed attempts, or refuses the credentials; it answers   *)
(* 404 for "b" at every attempt (a deleted submission) and 500 for "c" at    *)
(* every attempt. After a caught failure the fetch sleeps and tries again,   *)
(* without any limit; the failed attempts are counted up to MaxRetries.      *)

Deleted == {"b"}
Flaky == {"c"}

\* What an attempt of the fetch of the id can meet.
Answers(id) ==
    IF id \in Deleted THEN {"NotFound"}
    ELSE IF id \in Flaky THEN {"ServerError"}
    ELSE {"return", "TooManyRequests", "OAuthException"}

FetchReturnLive ==
    /\ pc = "fetching"
    /\ "return" \in Answers(Val(item).id)
    /\ FetchReturn

\* time.sleep(self.ratelimit_sleep) begins.
RetryLive ==
    /\ attempts' = IF attempts < MaxRetries THEN attempts + 1 ELSE attempts
    /\ pc' = "sleeping"
    /\ UNCHANGED <<diskVars, genVars, job, error, closed, saved, result, runs,
                   histVars, sigVars>>

FetchRaiseLive ==
    /\ pc = "fetching"
    /\ \E e \in Answers(Val(item).id) \ {"return"} :
           IF Caught(e) THEN RetryLive ELSE Raise(e)

\* The sleep ends: continue, the next attempt begins.
Wake ==
    /\ pc = "sleeping"
    /\ pc' = "fetching"
    /\ UNCHANGED <<diskVars, genVars, job, attempts, error, closed, saved, result,
                   runs, histVars, sigVars>>

LaunchLive == \E args \in SigArgs, f \in RunFeeds : Main(args, f)

NextLive ==
    \/ LaunchLive
    \/ ListStep
    \/ Filter
    \/ FetchReturnLive
    \/ FetchRaiseLive
    \/ Wake
    \/ Persist
    \/ Checkpoint
    \/ Finish
    \/ Interrupt
    \/ Exit

\* The steps of the program are taken when they stay possible, and an attempt
\* that can fail does not hang. The failures of an id the upstream serves
\* stop: a fetch that can return again and again does return. The operator
\* (signals, launches) is under no obligation.
FairLive ==
    /\ WF_vars(ListStep)
    /\ WF_vars(Filter)
    /\ SF_vars(FetchReturnLive)
    /\ WF_vars(FetchRaiseLive)
    /\ WF_vars(Wake)
    /\ WF_vars(Persist)
    /\ WF_vars(Checkpoint)
    /\ WF_vars(Finish)

SpecLive == Init /\ [][NextLive]_vars /\ FairLive

-----------------------------------------------------------------------------
(* What the properties speak of *)

Count(x, s) == Cardinality({i \in 1..Len(s) : s[i] = x})
Front(s) == SubSeq(s, 1, Len(s) - 1)
Distinct(s) == \A i, j \in 1..Len(s) : s[i] = s[j] => i = j

\* The ids the generator has yielded to this run, in order.
YieldedIds == [i \in 1..Len(yielded) |-> yielded[i].id]

\* What this run has appended to its output file.
Appended == SubSeq(Sink, sinkAtStart + 1, Len(Sink))

\* The candidates the loop body is through with: all the yielded ones, but
\* the last one while it is looked up, fetched or about to be written, or
\* when its fetch ended the run.
Processed ==
    IF pc \in {"filtering", "fetching", "persisting", "failed"}
    THEN Front(YieldedIds) ELSE YieldedIds

\* The ids of a sequence that are not done when their turn comes, given the
\* done set D the sequence starts with.
RECURSIVE NewOnes(_, _)
NewOnes(ids, D) ==
    IF ids = <<>> THEN <<>>
    ELSE IF Head(ids) \in D THEN NewOnes(Tail(ids), D)
    ELSE <<Head(ids)>> \o NewOnes(Tail(ids), D \cup {Head(ids)})

\* The spec's taxonomy of upstream failures (section 7).
TransientKinds == {"TooManyRequests", "RequestException", "ServerError"}
NonTransientKinds == {"BadRequest", "NotFound", "Forbidden", "OAuthException"}

-----------------------------------------------------------------------------
C2_Resume ==
    (pc = "done" /\ Distinct(YieldedIds)) =>
        LET new == Range(YieldedIds) \ doneAtStart IN
        /\ Range(Appended) = new
        /\ Len(Appended) = Cardinality(new)
        /\ Store = doneAtStart \cup Range(YieldedIds)
        /\ result = Some(Cardinality(new))

\* D = {a}, S = [a, b, c]: the run saved b and c and returned 2.
C2_Witness ==
    /\ pc = "done"
    /\ doneAtStart = {"a"}
    /\ YieldedIds = <<"a", "b", "c">>
    /\ Appended = <<"b", "c">>
    /\ result = Some(2)

(* C3: transient retry. A fetch attempt that fails with a transient error    *)
(* never ends the run: the fetch stays in flight and nothing is appended or  *)
(* checkpointed by that step; when the fetch succeeds after failed attempts, *)
(* the checkpoint step leaves exactly one record of the id in the output     *)
(* file and the id in the checkpoint set.                                    *)
C3_TransientRetry ==
    /\ [](pc = "failed" => Val(error) \notin TransientKinds)
    /\ [][\A e \in TransientKinds :
             FetchRaise(e) =>
                 /\ pc' = "fetching"
                 /\ attempts' = attempts + 1
                 /\ UNCHANGED <<progress_db, outputs, saved, error>>]_vars
    /\ [][(pc = "checkpointing" /\ pc' = "discovering" /\ attempts >= 1) =>
             /\ Count(Val(item).id, Sink') = 1
             /\ Val(item).id \in Store'
             /\ Val(item).id \notin Store]_vars

\* The fetch failed twice, succeeded, and the record is written and marked.
C3_Witness ==
    /\ pc = "discovering"
    /\ attempts = 2
    /\ ~IsNone(item)
    /\ Val(item).id \in fetched
    /\ Count(Val(item).id, Sink) = 1
    /\ Val(item).id \in Store

(* C4: fail-fast. A fetch attempt that fails with a non-transient error      *)
(* (400, 403, 404, authentication) ends the run with that error at once.     *)
C4_FailFast ==
    [][\A e \in NonTransientKinds :
          FetchRaise(e) => (pc' = "failed" /\ error' = Some(e))]_vars

(* C5: a fatal error ends the run. When the fetch of a candidate lets an     *)
(* error out, run() ends with it and the checkpoint DB is closed; the        *)
(* candidate has no record and no checkpoint entry, the earlier candidates   *)
(* keep theirs, and nothing more is fetched, appended or marked by the run.  *)
C5_FatalEndsRun ==
    /\ [](~IsNone(error) =>
             /\ pc = "failed"
             /\ closed
             /\ IsNone(result)
             /\ Val(item).id \notin Range(Sink)
             /\ Val(item).id \notin Store
             /\ Appended = NewOnes(Front(YieldedIds), doneAtStart)
             /\ Store = doneAtStart \cup Range(Appended)
             /\ fetched = Range(Appended) \cup {Val(item).id})
    /\ [][pc = "failed" => (pc' = "idle" /\ UNCHANGED <<progress_db, outputs>>)]_vars

\* The run failed on a candidate after saving one, with feed left to read.
C5_Witness ==
    /\ pc = "failed"
    /\ Len(Appended) = 1
    /\ genPos < Len(feed)

(* C10: persistence order. What a run has appended is, in order, the ids of  *)
(* the candidates it is through with that were not done when their turn      *)
(* came; whenever the run goes back to the generator for the next candidate, *)
(* every candidate so far is in the checkpoint set.                          *)
C10_PersistenceOrder ==
    pc # "idle" =>
        /\ Appended = NewOnes(Processed, doneAtStart)
        /\ pc = "discovering" => Range(YieldedIds) \subseteq Store

\* A finished run that skipped a done id and saved two others.
C10_Witness ==
    /\ pc = "done"
    /\ Len(yielded) = 3
    /\ reported # {}
    /\ Len(Appended) = 2

-----------------------------------------------------------------------------
(* Discovery: what the properties speak of *)

After == _to_ts(job.start_date)
Before == _to_ts(job.end_date) + EndOfDay

\* The place of the first record of the feed created strictly before the
\* start boundary (both in milliseconds), or 0.
FirstOld ==
    LET old == {i \in 1..Len(feed) : feed[i].created_utc < After * Millis}
    IN  IF old = {} THEN 0 ELSE CHOOSE i \in old : \A j \in old : i <= j

\* The places of the feed the generator has read.
Scanned == 1..genPos

\* The record is not turned away for its date (keyword mode has no such test).
InRange(sub) ==
    KeywordMode \/ ListOutcome(sub, After, Before, NoneV, NoneV) = "yield"

\* The flair of a record as text: empty when the record has none.
FlairText(r) == IF IsNone(r.link_flair_text) THEN EmptyStr ELSE Val(r.link_flair_text)

\* Two characters that are the same letter in either case, two strings that
\* are equal ignoring case.
SameLetter(c, d) ==
    c = d \/ \E i \in 1..Len(Uppers) : {c, d} = {Uppers[i], Lowers[i]}
EqualIgnoringCase(x, y) ==
    Len(x) = Len(y) /\ \A i \in 1..Len(x) : SameLetter(x[i], y[i])

Allowed(r, flairs) == \E f \in Range(Val(flairs)) : EqualIgnoringCase(FlairText(r), f)

ScoreOk(r) == IsNone(job.min_score) \/ r.score >= Val(job.min_score)

(* C6: range-mode early termination. list_submission_ids ends at the first   *)
(* record created strictly before the start: it reads no record after that   *)
(* one and yields neither it nor any later record, whatever they carry; it   *)
(* ends nowhere else but at the end of the feed.                             *)
C6_EarlyTermination ==
    ~KeywordMode =>
        /\ FirstOld # 0 =>
              /\ genPos <= FirstOld
              /\ genPos = FirstOld => genDone
              /\ \A k \in 1..Len(yielded) :
                    \E i \in 1..(FirstOld - 1) : yielded[k] = Yield(feed[i])
        /\ genDone => genPos = (IF FirstOld # 0 THEN FirstOld ELSE Len(feed))

\* The scan yielded a record, then stopped at an old record in front of a
\* record it would have yielded.
C6_Witness ==
    /\ ~KeywordMode
    /\ genDone
    /\ Len(yielded) = 1
    /\ genPos = 2
    /\ genPos < Len(feed)
    /\ feed[genPos].created_utc < After * Millis
    /\ ListOutcome(feed[genPos + 1], After, Before, job.min_score,
                   FlairSet(job.flairs)) = "yield"

(* C7: minimum-score filter. In both modes and for every threshold given,    *)
(* 0 and negative ones too, no yielded record has a score below the          *)
(* threshold, and a record that is in range and passes the flair filter with *)
(* a score at or above the threshold is yielded.                             *)
C7_MinScore ==
    ~IsNone(job.min_score) =>
        /\ \A k \in 1..Len(yielded) : yielded[k].score >= Val(job.min_score)
        /\ \A i \in Scanned :
              (/\ feed[i].score >= Val(job.min_score)
               /\ InRange(feed[i])
               /\ ~FlairDrop(FlairSet(job.flairs), feed[i]))
                  => \E k \in 1..Len(yielded) : yielded[k] = Yield(feed[i])

(* C8 as claimed: with a flair allow-list given, a record is yielded only if *)
(* its flair, empty when absent, equals an allowed value ignoring case.      *)
C8_FlairAllowList ==
    ~IsNone(job.flairs) =>
        \A k \in 1..Len(yielded) : Allowed(yielded[k], job.flairs)

(* C8 amended: with a non-empty flair allow-list given, a record is yielded  *)
(* only if its flair, empty when absent, equals an allowed value ignoring    *)
(* case, and a record that is in range, passes the score filter and has such *)
(* a flair is yielded; an empty allow-list filters nothing.                  *)
C8_FlairNonEmptyList ==
    /\ TruthyList(job.flairs) =>
          /\ \A k \in 1..Len(yielded) : Allowed(yielded[k], job.flairs)
          /\ \A i \in Scanned :
                (/\ Allowed(feed[i], job.flairs)
                 /\ InRange(feed[i])
                 /\ ~ScoreDrop(job.min_score, feed[i]))
                    => \E k \in 1..Len(yielded) : yielded[k] = Yield(feed[i])
    /\ (~IsNone(job.flairs) /\ Val(job.flairs) = <<>>) =>
          \A i \in Scanned :
              (InRange(feed[i]) /\ ~ScoreDrop(job.min_score, feed[i]))
                  => \E k \in 1..Len(yielded) : yielded[k] = Yield(feed[i])

\* Allow-list {"discussion"}: a "Discussion" record was yielded and a "News"
\* record was passed over.
C8_Witness ==
    /\ job.flairs = Some(<<Lower(Discussion)>>)
    /\ genDone
    /\ \E k \in 1..Len(yielded) : yielded[k].link_flair_text = Some(Discussion)
    /\ \E i \in Scanned :
          /\ feed[i].link_flair_text = Some(News)
          /\ \A k \in 1..Len(yielded) : yielded[k] # Yield(feed[i])

-----------------------------------------------------------------------------
(* Cut runs: what the properties speak of *)

IsPrefix(s, t) == Len(s) <= Len(t) /\ SubSeq(t, 1, Len(s)) = s

(* C11: append-only output. Every step of every run, cut short or not,       *)
(* leaves each output file with its previous content as a prefix; the only   *)
(* step that changes a file is the append of the record just fetched, at the *)
(* end of the run's own file, so that the file is run after run, save after  *)
(* save, the records the runs saved.                                         *)
C11_AppendOnly ==
    /\ [][\A p \in DOMAIN outputs :
             p \in DOMAIN outputs' /\ IsPrefix(outputs[p], outputs'[p])]_vars
    /\ [][outputs' # outputs =>
             /\ pc = "persisting"
             /\ FileOf(outputs', job.output) = Append(Sink, Val(item).id)
             /\ \A p \in DOMAIN outputs' : p # job.output => outputs'[p] = outputs[p]]_vars
    /\ [](pc # "idle" => Len(Sink) >= sinkAtStart)

\* A second run that found records of the first in the file and added its own.
C11_Witness ==
    /\ runs = 2
    /\ pc = "done"
    /\ sinkAtStart >= 1
    /\ Len(Appended) >= 1

\* Where a signal can find the process once the Scraper is constructed.
Running ==
    {"discovering", "filtering", "fetching", "sleeping", "persisting", "checkpointing",
     "done"}

(* C12: interrupt handling. A signal can land wherever the process is after  *)
(* the Scraper is constructed; the step that handles it closes the           *)
(* checkpoint store and ends the process with exit status 0 without          *)
(* fetching, appending or marking anything, and the process ended that way   *)
(* does nothing more: its files stay as they are.                            *)
C12_Interrupt ==
    /\ [](pc \in Running => ENABLED Interrupt)
    /\ [][Interrupt =>
             /\ pc' = "aborted"
             /\ closed'
             /\ exit_code' = Some(0)
             /\ UNCHANGED <<progress_db, outputs, fetched, saved>>]_vars
    /\ [](pc = "aborted" => closed /\ exit_code = Some(0))
    /\ [][pc = "aborted" => (pc' = "idle" /\ UNCHANGED <<progress_db, outputs>>)]_vars

\* The process was ended by a signal between an append and its mark_done,
\* with feed left to read.
C12_Witness ==
    /\ pc = "aborted"
    /\ genPos < Len(feed)
    /\ \E c \in cuts : c.at = "checkpointing" /\ c.cause = "signal" /\ c.id = Val(item).id

\* The ids of the records.
SinkIds == {"a", "b"}

\* A run was cut short for one of the causes after the record of the id was
\* appended and before the id was marked.
Gap(id, causes) ==
    \E c \in cuts : c.id = id /\ c.at = "checkpointing" /\ c.cause \in causes

\* A run that completes and discovers an id of such a gap, still unmarked
\* when the run starts, appends one more record for it.
SecondRecord(causes) ==
    pc = "done" =>
        \A id \in Range(YieldedIds) \ doneAtStart :
            Gap(id, causes) => Count(id, Appended) = 1 /\ Count(id, Sink) >= 2

(* C13 as claimed: after an interrupt between the append and the mark_done   *)
(* of an id, a following run that discovers the id appends a second record   *)
(* for it, and an output file holds two records for an id only when such an  *)
(* interrupt happened for that id.                                           *)
C13_OnlyInterrupt ==
    pc # "idle" =>
        /\ SecondRecord({"signal"})
        /\ \A id \in SinkIds : Count(id, Sink) >= 2 => Gap(id, {"signal"})

(* C13 amended: after a run is ended between the append and the mark_done of *)
(* an id, by an interrupt or by a failure of mark_done, a following run that *)
(* discovers the id appends a second record for it, and an output file holds *)
(* two records for an id only when a run was ended that way for that id.     *)
C13_OnlyGap ==
    pc # "idle" =>
        /\ SecondRecord({"signal", "mark_done"})
        /\ \A id \in SinkIds :
              Count(id, Sink) >= 2 => Gap(id, {"signal", "mark_done"})

\* A run met the id of a record an interrupted run had appended and not
\* marked, and the file now holds two records for it.
C13_Witness ==
    /\ pc = "done"
    /\ \E id \in Range(YieldedIds) \ doneAtStart :
          /\ Gap(id, {"signal"})
          /\ ~Gap(id, {"mark_done"})
          /\ Count(id, Sink) = 2

(* C14: a checkpoint store failure is fatal. When is_done or mark_done       *)
(* raises, the run ends with that error and the store closed, the step       *)
(* fetches, appends and marks nothing, and the failed run does nothing more: *)
(* it returns no count and its files stay as they are.                       *)
C14_StoreFailureFatal ==
    /\ [][(IsDoneRaise \/ MarkDoneRaise) =>
             /\ pc' = "failed"
             /\ error' = Some(StoreError)
             /\ closed'
             /\ UNCHANGED <<progress_db, outputs, fetched, saved, result>>]_vars
    /\ []((pc = "failed" /\ error = Some(StoreError)) => (closed /\ IsNone(result)))
    /\ [][(pc = "failed" /\ error = Some(StoreError)) =>
             (pc' = "idle" /\ UNCHANGED <<progress_db, outputs>>)]_vars

\* is_done failed on a candidate after the run saved another, with feed left
\* to read.
C14_Witness ==
    /\ pc = "failed"
    /\ error = Some(StoreError)
    /\ Len(Appended) = 1
    /\ Val(item).id \notin Range(Appended)
    /\ Val(item).id \notin fetched
    /\ genPos < Len(feed)

(* C15: a skip has no side effects. Whatever the run does next with a        *)
(* candidate whose id is done, it does not fetch it, appends nothing, leaves *)
(* the checkpoint set and the saved count as they are, and the skip takes    *)
(* the run back to the generator for the next candidate.                     *)
C15_SkipNoSideEffects ==
    /\ [][(pc = "filtering" /\ Val(item).id \in Store) =>
             /\ pc' \in {"discovering", "failed", "aborted"}
             /\ UNCHANGED <<progress_db, outputs, saved, fetched, attempts>>]_vars
    /\ [][(Filter /\ Val(item).id \in Store) =>
             (pc' = "discovering" /\ UNCHANGED <<genVars, error, closed, result>>)]_vars

\* The run skipped a done candidate and is back at the generator with
\* nothing fetched, written or counted.
C15_Witness ==
    /\ pc = "discovering"
    /\ reported # {}
    /\ fetched = {}
    /\ Appended = <<>>
    /\ saved = 0
    /\ Store = doneAtStart

\* A signal ended a run while the fetch of the id was in flight.
FetchCut(id) == \E c \in cuts : c.id = id /\ c.at = "fetching" /\ c.cause = "signal"

\* A run that completes and discovers an id whose fetch a signal cut, still
\* unmarked when the run starts, fetches it, appends one record for it and
\* marks it.
Refetched ==
    pc = "done" =>
        \A id \in Range(YieldedIds) \ doneAtStart :
            FetchCut(id) =>
                id \in fetched /\ Count(id, Appended) = 1 /\ id \in Store

(* C16 as claimed: a signal that lands while the fetch of an id is in        *)
(* flight, on a first attempt or between retries, ends the process; the id   *)
(* then has no record in the output file and is not in the checkpoint set,   *)
(* and a following run that discovers it fetches and persists it once.       *)
C16_FetchAbandoned ==
    /\ [][(Interrupt /\ pc = "fetching") =>
             /\ pc' = "aborted"
             /\ Val(item).id \notin Range(Sink')
             /\ Val(item).id \notin Store']_vars
    /\ [](pc # "idle" => Refetched)

(* C16 amended: a signal that lands while the fetch of an id is in flight,   *)
(* on a first attempt or between retries, ends the process; the id is then   *)
(* not in the checkpoint set and the run has appended no record for it (the  *)
(* file holds one only from an earlier run that was ended between the append *)
(* and the mark_done of that id); a following run that discovers the id      *)
(* fetches it and appends one record for it.                                 *)
C16_FetchLeavesNothing ==
    /\ [][(Interrupt /\ pc = "fetching") =>
             /\ pc' = "aborted"
             /\ UNCHANGED <<progress_db, outputs>>
             /\ Val(item).id \notin Range(Appended')
             /\ Val(item).id \notin Store'
             /\ Val(item).id \in Range(Sink') =>
                    Gap(Val(item).id, {"signal", "mark_done"})]_vars
    /\ [](pc # "idle" => Refetched)

\* A signal ended the process while the fetch slept between two attempts:
\* the id has no record and no checkpoint entry.
C16_Witness ==
    /\ pc = "aborted"
    /\ attempts >= 1
    /\ ~IsNone(item)
    /\ FetchCut(Val(item).id)
    /\ Val(item).id \notin Range(Sink)
    /\ Val(item).id \notin Store

-----------------------------------------------------------------------------
(* Runs to their end: what the properties speak of *)

Ended == {"done", "aborted", "failed"}

\* No id of the feed is answered with a failure at every attempt.
Served == \A i \in 1..Len(feed) : "return" \in Answers(feed[i].id)

\* The fetch in flight meets transient failures that never stop.
TransientForever == pc \in {"fetching", "sleeping"} /\ Val(item).id \in Flaky

(* C17: termination. A run over a feed whose fetches fail only finitely      *)
(* often ends: with no signal and no fatal error it reaches DONE, every      *)
(* discovered id marked and the store closed; every run reaches DONE,        *)
(* ABORTED or a fatal error, or else stays in FETCHING on a fetch whose      *)
(* transient failures never stop.                                            *)
C17_Termination ==
    /\ (pc = "discovering" /\ Served) ~> (pc \in Ended)
    /\ [](pc = "done" =>
             closed /\ IsNone(error) /\ IsNone(exit_code) /\ Range(YieldedIds) \subseteq Store)
    /\ [](pc = "aborted" => ~IsNone(exit_code))
    /\ [](pc = "failed" => ~IsNone(error))
    /\ (pc = "discovering") ~> (pc \in Ended \/ TransientForever)

(* C20: checkpoint implies output. In every state of every run, completed,   *)
(* failed or cut short at any step, every id in the checkpoint set has a     *)
(* record in the output file and every id the run has marked has a record    *)
(* the run appended; an id is marked only at the step after its record was   *)
(* appended, and a record is appended only for the candidate whose fetch has *)
(* just returned.                                                            *)
C20_CheckpointImpliesOutput ==
    /\ [](pc # "idle" =>
             /\ Store \subseteq Range(Sink)
             /\ (Store \ doneAtStart) \subseteq Range(Appended))
    /\ [][(pc # "idle" /\ progress_db' # progress_db) =>
             /\ pc = "checkpointing"
             /\ Val(item).id \in Range(Appended)
             /\ Store' = Store \cup {Val(item).id}]_vars
    /\ [][outputs' # outputs => (pc = "persisting" /\ Val(item).id \in fetched)]_vars
    /\ [][(pc' = "persisting" /\ pc # "persisting") =>
             (pc = "fetching" /\ UNCHANGED <<item, error, progress_db, outputs>>)]_vars

\* A signal ended the run between the append and the mark_done of its second
\* candidate: one id is marked, two records are written.
C20_Witness ==
    /\ pc = "aborted"
    /\ Len(Appended) = 2
    /\ Cardinality(Store \ doneAtStart) = 1
    /\ Val(item).id \notin Store

-----------------------------------------------------------------------------
(* Date bounds: what the properties speak of *)

\* Midnight UTC of the end date plus 86399 seconds, and the start boundary,
\* in the unit of the feed's timestamps.
EndBoundary == (job.end_date.days * SecondsPerDay + 86399) * Millis
StartBoundary == (job.start_date.days * SecondsPerDay + job.start_date.secs) * Millis

IsYielded(r) == \E k \in 1..Len(yielded) : yielded[k].id = r.id

KeywordsGiven == ~IsNone(job.keywords) /\ Val(job.keywords) # <<>>

(* C19: keyword mode ignores the date bounds. With a non-empty keyword list  *)
(* every record of the search that passes the score and flair filters is     *)
(* yielded, whatever its timestamp; the sequence ends only where the search  *)
(* results end, and a run on a fresh store that completes has fetched,       *)
(* appended and marked every yielded record in order. Without keywords, or   *)
(* with an empty list, the listing is used: it yields nothing outside the    *)
(* date bounds.                                                              *)
C19_KeywordIgnoresDates ==
    /\ KeywordsGiven =>
          /\ \A i \in Scanned :
                (/\ ~ScoreDrop(job.min_score, feed[i])
                 /\ ~FlairDrop(FlairSet(job.flairs), feed[i]))
                    => IsYielded(feed[i])
          /\ genDone => genPos = Len(feed)
          /\ pc = "done" =>
                /\ Appended = YieldedIds
                /\ fetched = Range(YieldedIds)
                /\ Store = Range(YieldedIds)
    /\ ~KeywordsGiven =>
          \A k \in 1..Len(yielded) :
              /\ yielded[k].created_utc * Millis >= StartBoundary
              /\ yielded[k].created_utc * Millis <= EndBoundary

\* A keyword run completed and saved a record created before the start
\* boundary and, after it, a record created after the end boundary.
C19_Witness ==
    /\ KeywordsGiven
    /\ pc = "done"
    /\ Len(feed) >= 2
    /\ feed[1].created_utc < StartBoundary
    /\ feed[2].created_utc > EndBoundary
    /\ SubSeq(Appended, 1, 2) = <<feed[1].id, feed[2].id>>
    /\ {feed[1].id, feed[2].id} \subseteq Store

-----------------------------------------------------------------------------
(* C9: scrape-tag isolation. A job that differs in subreddit, date range or  *)
(* keyword query from every job run before it is given a checkpoint DB and   *)
(* an output file of its own: it starts with nothing done and nothing        *)
(* written, and no id another job marked is reported done to it.             *)
C9_TagIsolation ==
    (pc # "idle" /\ JobKey(job) \notin earlier) =>
        /\ doneAtStart = {}
        /\ sinkAtStart = 0
        /\ reported \cap doneAtStart = {}

====
